---- MODULE Spec2Model ----
(***************************************************************************)
(* Model of src/scraper.py: the listing -> detail -> intermediary -> final *)
(* link pipeline (run_scraper / process_movie), its ledger (scraped,       *)
(* scraped.json) and its result sink (results.txt).                        *)
(*                                                                         *)
(* Representation of strings.  A text (title, heading, anchor text) is the *)
(* sequence of its tokens: the maximal pieces between spaces.  A URL is a  *)
(* record [scheme, host, segs, slash]: "scheme://host/seg/seg/" where each *)
(* seg is its "-"-separated tokens and slash tells whether the URL ends in *)
(* "/".  Substring and regular-expression tests are evaluated token by     *)
(* token against the tables SubstrOf, EpisodeMatch and QualityOf, which    *)
(* list, for each token of the vocabulary used here, what the Python test  *)
(* answers on it.  The vocabulary holds no pattern that straddles tokens.  *)
(* The empty sequence is the empty string (and None: the code tests both   *)
(* with "not x").                                                          *)
(***************************************************************************)
EXTENDS Integers, Sequences, FiniteSets, TLC

\* ---------------------------------------------------------------- config
HOST_PRIORITY == <<"gdtot", "gdflix", "hubcloud", "v-cloud", "drive.google", "gdrive", "gdlink">>

ACCEPT_BUTTON_KEYWORDS == <<"batch", "zip", "download", "v-cloud", "vcloud", "download now", "g-direct">>

\* the five regular expressions, by name
EPISODE_PATTERNS == <<"\\bep\\b", "\\bep\\.", "\\bepisode\\b", "\\bs\\d{1,2}e\\d{1,2}\\b", "\\bS\\d{1,2}E\\d{1,2}\\b">>

SHORTENER_HOSTS == <<"vdrive.lol", "m.vdrive.lol", "vdshort", "short", "ouo.io", "shrtco", "shrinkme", "rebrand", "boost.ink", "adf.ly", "ouo", "cutt.ly">>

BLOCK_PATTERNS_SUBSTR == <<"doubleclick.net", "googlesyndication", "google-analytics", "adservice.google", "adsby", "adsystem", "trk.", "tracking", "adserver", "adclick", "shortener", "short", "mdrive", "m.vdrive", "vdshort", "boost.ink", "adbull", "rekonise", "ouo.io", "shrtco", "shrinkme", "adf.ly", "cpro", "cpms", "exo.prefix">>

PAGE_LOAD_RETRIES == 3
MOVIE_LOAD_RETRIES == 3
VGMLINK_LOAD_RETRIES == 3
FINAL_LOAD_RETRIES == 2
WAIT_ANCHORS_SECONDS == 8
\* line 143: the default of resolve_shortener_and_get_final, which line 389 leaves as it is
wait_seconds == 6

\* ------------------------------------------------------- sequence helpers
Range(s) == {s[i] : i \in 1..Len(s)}

RECURSIVE SelectSeqBy(_, _)
\* order-preserving dedupe: "if x not in seen: append; seen.add(x)"
SelectSeqBy(s, seen) ==
  IF s = <<>> THEN <<>>
  ELSE IF Head(s) \in seen THEN SelectSeqBy(Tail(s), seen)
       ELSE <<Head(s)>> \o SelectSeqBy(Tail(s), seen \cup {Head(s)})

Dedupe(s) == SelectSeqBy(s, {})

RECURSIVE Flatten(_)
Flatten(ss) == IF ss = <<>> THEN <<>> ELSE Head(ss) \o Flatten(Tail(ss))

\* ------------------------------------------------------------ token tables
\* The patterns of the program's lists that occur in a token (Python "pat in s").
SubstrOf(tok) ==
  CASE tok = "gdtot.example"   -> {"gdtot"}
    [] tok = "gdflix.example"  -> {"gdflix"}
    [] tok = "cutt.ly"         -> {"cutt.ly"}
    [] tok = "ouo.io"          -> {"ouo.io", "ouo"}
    [] tok = "doubleclick.net" -> {"doubleclick.net"}
    [] tok = "trk.example"     -> {"trk."}
    [] tok = "vdshort.example" -> {"vdshort", "short"}
    [] tok = "adserver.example" -> {"adserver"}
    [] tok = "tracking"        -> {"tracking"}
    [] tok = "adsbygoogle.js"  -> {"adsby"}
    [] tok = "shortener"       -> {"shortener", "short"}
    [] tok = "vgmlinks.app"    -> {"vgml", "vgmlink"}
    [] tok = "download"        -> {"download"}
    [] tok = "batch"           -> {"batch"}
    [] tok = "zip"             -> {"zip"}
    [] tok = "gdtot"           -> {"gdtot"}
    [] tok = "gdflix"          -> {"gdflix"}
    [] OTHER                   -> {}

\* The indices of EPISODE_PATTERNS that re.search(p, tok, re.I) matches.
EpisodeMatch(tok) ==
  CASE tok = "ep"      -> {1}
    [] tok = "episode" -> {3}
    [] tok = "s01e02"  -> {4, 5}
    [] OTHER           -> {}

\* The group re.search(r"(2160p|1080p|720p|480p|360p)", tok, re.I) captures, lower-cased.
QualityOf(tok) ==
  CASE tok = "1080p" -> "1080p"
    [] tok = "720p"  -> "720p"
    [] OTHER         -> "none"

\* str.lower() of a token (the vocabulary is lower case but for these).
Lower(tok) ==
  CASE tok = "Hindi" -> "hindi"
    [] tok = "GDFLIX" -> "gdflix"
    [] tok = "Tracking" -> "tracking"
    [] tok = "ADSERVER.example" -> "adserver.example"
    [] OTHER         -> tok

\* str.title() of a token that survives clean_title.
TitleCase(tok) ==
  CASE tok = "inception" -> "Inception"
    [] tok = "tenet"     -> "Tenet"
    [] tok = "hevc"      -> "Hevc"
    [] tok = "1080p"     -> "1080P"
    [] tok = "720p"      -> "720P"
    [] tok = "mkv"       -> "Mkv"
    [] tok = "episode"   -> "Episode"
    [] tok = "vegamoviesog" -> "Vegamoviesog"
    [] tok = "city"      -> "City"
    [] tok = "gdtot"     -> "Gdtot"
    [] OTHER             -> tok

\* r"\.(mkv|mp4|avi|mov|zip)$": the token is "." followed by an extension
ExtTokens == {".mkv"}
\* r"\[.*?\]|\{.*?\}"
BracketTokens == {"[hd]"}
\* r"\((.*?)\)" whose inner text is a year / is not
YearTokens == {"(2010)"}
ParenTokens == {"(uncut)"}
\* the one-word entries of junk (lines 114-116); "web-dl" and "dual audio" need tokens
\* the vocabulary does not hold
JunkWords == {"download", "bluray", "brrip", "hdrip", "hindi", "english", "esub", "subs", "x264", "x265", "10bit", "web", "vegamovies"}

\* re.sub(r"[._\-]+", " ", tok): the words a token falls into
SplitSeparators(tok) ==
  CASE tok = ".mkv"              -> <<"mkv">>
    [] tok = "vegamoviesog.city" -> <<"vegamoviesog", "city">>
    [] OTHER                     -> <<tok>>

\* ------------------------------------------------------------------- URLs
U(host, segs) == [scheme |-> "https", host |-> host, segs |-> segs, slash |-> TRUE]

UrlTokens(u) == <<u.host>> \o Flatten(u.segs)

\* href.startswith("http")
StartsWithHttp(u) == u.scheme \in {"http", "https"}

\* any(p in text for p in pats), text given by its tokens
AnyIn(pats, toks) == \E i \in 1..Len(pats) : \E j \in 1..Len(toks) : pats[i] \in SubstrOf(Lower(toks[j]))

\* ---------------------------------------------------------- pure helpers
is_episode(toks) ==
  IF toks = <<>> THEN FALSE
  ELSE \E p \in 1..Len(EPISODE_PATTERNS) : \E j \in 1..Len(toks) : p \in EpisodeMatch(Lower(toks[j]))

RECURSIVE FirstQuality_last(_)
\* the last match of the text instead of the first
FirstQuality_last(toks) ==
  IF toks = <<>> THEN "none"
  ELSE IF QualityOf(Lower(toks[Len(toks)])) # "none" THEN QualityOf(Lower(toks[Len(toks)]))
       ELSE FirstQuality_last(SubSeq(toks, 1, Len(toks) - 1))

RECURSIVE FirstQuality(_)
FirstQuality(toks) ==
  IF toks = <<>> THEN "none"
  ELSE IF QualityOf(Lower(Head(toks))) # "none" THEN QualityOf(Lower(Head(toks)))
       ELSE FirstQuality(Tail(toks))

extract_quality(toks) ==
  IF toks = <<>> THEN "Unknown"
  ELSE IF FirstQuality(toks) # "none" THEN FirstQuality(toks) ELSE "Unknown"

\* line 104: drop a file extension at the very end
StripExt(toks) ==
  IF toks # <<>> /\ toks[Len(toks)] \in ExtTokens THEN SubSeq(toks, 1, Len(toks) - 1) ELSE toks

\* lines 105-112: drop [..], {..} and (..) except (year)
StripBrackets(toks) == SelectSeq(toks, LAMBDA t : t \notin BracketTokens /\ t \notin ParenTokens)

RECURSIVE SplitAll(_)
\* line 113
SplitAll(toks) == IF toks = <<>> THEN <<>> ELSE SplitSeparators(Head(toks)) \o SplitAll(Tail(toks))

\* lines 114-118
StripJunk(toks) == SelectSeq(toks, LAMBDA t : Lower(t) \notin JunkWords)

TitleAll(toks) == [i \in 1..Len(toks) |-> TitleCase(Lower(toks[i]))]

clean_title(raw) ==
  IF raw = <<>> THEN <<"Unknown">>
  ELSE TitleAll(StripJunk(SplitAll(StripBrackets(StripExt(raw)))))

score(u) ==
  IF \E idx \in 1..Len(HOST_PRIORITY) : AnyIn(<<HOST_PRIORITY[idx]>>, UrlTokens(u))
  THEN (CHOOSE idx \in 1..Len(HOST_PRIORITY) :
          /\ AnyIn(<<HOST_PRIORITY[idx]>>, UrlTokens(u))
          /\ \A k \in 1..(idx - 1) : ~AnyIn(<<HOST_PRIORITY[k]>>, UrlTokens(u))) - 1
  ELSE Len(HOST_PRIORITY)

\* prefer_links without the sort: the links in discovery order
prefer_links_unsorted(links) == links

RECURSIVE InsertByScore_unstable(_, _)
\* an insertion that puts x before the elements of equal score
InsertByScore_unstable(x, s) ==
  IF s = <<>> THEN <<x>>
  ELSE IF score(Head(s)) < score(x) THEN <<Head(s)>> \o InsertByScore_unstable(x, Tail(s))
       ELSE <<x>> \o s

RECURSIVE InsertByScore(_, _)
\* insert x after every element whose score is <= score(x): a stable sort step
InsertByScore(x, s) ==
  IF s = <<>> THEN <<x>>
  ELSE IF score(Head(s)) <= score(x) THEN <<Head(s)>> \o InsertByScore(x, Tail(s))
       ELSE <<x>> \o s

RECURSIVE SortedByScore(_)
SortedByScore(links) ==
  IF links = <<>> THEN <<>>
  ELSE InsertByScore(links[Len(links)], SortedByScore(SubSeq(links, 1, Len(links) - 1)))

prefer_links(links) == SortedByScore(links)


\* ------------------------------------------------- the pages of the model
\* An anchor <a href=..>text</a>; button: the anchor wraps a <button>.
A(href, text, button) == [href |-> href, text |-> text, button |-> button]

NoURL == [scheme |-> "", host |-> "", segs |-> <<>>, slash |-> FALSE]

\* detail URLs (listing posts)
d1 == U("vegamoviesog.city", << <<"inception", "2010">> >>)
\* no trailing slash
d2 == [U("vegamoviesog.city", << <<"tenet">> >>) EXCEPT !.slash = FALSE]
\* a relative href: not startswith("http")
relU == [scheme |-> "", host |-> "", segs |-> << <<"page">> >>, slash |-> TRUE]
navU == U("vegamoviesog.city", << <<"home">> >>)

\* intermediary URLs
v1 == U("vgmlinks.app", << <<"inception", "1080p">> >>)
v2 == U("vgmlinks.app", << <<"inception", "batch">> >>)
vEp == U("vgmlinks.app", << <<"inception", "s01e02">> >>)

\* final URLs
fTot == U("gdtot.example", << <<"file", "1">> >>)
fFlix == U("gdflix.example", << <<"file", "2">> >>)
fBtn == U("filepress.example", << <<"file", "3">> >>)
fCut == U("cutt.ly", << <<"abc">> >>)
fOuo == U("ouo.io", << <<"xyz">> >>)
fEp == U("gdtot.example", << <<"show", "episode", "3">> >>)
\* where the shortener fCut may land
\* a gdflix host with "gdtot" in its path, and an unlisted host with an upper-case path
fBoth == U("gdflix.example", << <<"gdtot">> >>)
fUp == U("filepress.example", << <<"GDFLIX">> >>)
fEpRes == U("gdtot.example", << <<"show", "s01e02">> >>)

DetailURLs == {d1, d2}

\* The site a run meets is one of four: "small", a site of few pages for the properties
\* of whole runs; "io", the small site with one listing only, for the runs whose writes of
\* scraped.json may raise; "rich", a site with every kind of anchor and heading for the properties
\* of one process_movie call; and "dup", a site whose every post has two intermediaries,
\* each with two final links under the same heading.

\* what a listing page may hold: the hrefs of "h3.entry-title a[href]", in order
ListingPages(s) ==
  IF s = "dup" THEN { <<d1, d2>> }
  ELSE IF s = "io" THEN { <<d1, relU, d2>> }
  ELSE { <<d1, relU, d2>>, <<d2, d2, d1>> }

DetailTitle == <<"download", "inception", "(2010)", "Hindi", "720p", "1080p">>

NoCandidatePage ==
  [title |-> DetailTitle,
   anchors |-> << A(navU, <<"home">>, FALSE), A(relU, <<"download">>, FALSE),
                  A(v2, <<"episode", "download">>, FALSE), A(vEp, <<"download">>, FALSE) >>]

TwoCandidatePage ==
  [title |-> DetailTitle,
   anchors |-> << A(v1, <<"download", "now">>, FALSE), A(vEp, <<"batch">>, FALSE),
                  A(v1, <<"zip">>, FALSE), A(v2, <<"batch", "zip">>, FALSE) >>]

UntitledPage == [title |-> <<>>, anchors |-> << A(v2, <<"download">>, FALSE) >>]

\* what a detail page may hold: its <title> and its anchors
DetailPages(s) ==
  IF s \in {"small", "io"} THEN {NoCandidatePage, UntitledPage}
  ELSE IF s \in {"dup", "short"} THEN {TwoCandidatePage}
  ELSE {NoCandidatePage, TwoCandidatePage, UntitledPage}

\* what the intermediary page at u may hold: its anchors
VgmPages(s, u) ==
  IF s \in {"small", "io"}
  THEN { << A(navU, <<"home">>, FALSE) >>, << A(fTot, <<"link">>, FALSE) >> }
  ELSE IF s = "dup" THEN { << A(fFlix, <<"link">>, FALSE), A(fTot, <<"link">>, FALSE) >> }
  ELSE IF s = "short" THEN { << A(fCut, <<"download">>, FALSE) >>,
                              << A(fTot, <<"link">>, FALSE) >> }
  ELSE { << A(navU, <<"home">>, FALSE), A(fEp, <<"gdtot">>, FALSE) >>,
         << A(fFlix, <<"link">>, FALSE), A(fTot, <<"link">>, FALSE), A(fFlix, <<"mirror">>, FALSE) >>,
         << A(fBtn, <<"get">>, TRUE), A(fTot, <<"episode", "3">>, FALSE), A(fCut, <<"download">>, FALSE) >>,
         << A(fOuo, <<"download">>, FALSE) >> }

FileHeading == [h5 |-> <<"inception", "1080p", ".mkv">>, title |-> <<"gdtot">>]
HevcHeading == [h5 |-> <<"inception", "hevc", "1080p", "[hd]">>, title |-> <<>>]
TitleOnly == [h5 |-> <<>>, title |-> <<"inception", "(uncut)", "720p">>]
JunkHeading == [h5 |-> <<"download", ".mkv">>, title |-> <<>>]
Untitled == [h5 |-> <<>>, title |-> <<>>]

\* what the final page at u may hold: its <h5 class="m-0 ..."> heading and its <title>
FinalPages(s, u) ==
  IF s \in {"small", "io", "dup", "short"} THEN {FileHeading}
  ELSE CASE u = fTot   -> {FileHeading}
         [] u = fFlix  -> {FileHeading, TitleOnly}
         [] u = fBtn   -> {HevcHeading}
         [] u = fEpRes -> {JunkHeading}
         [] OTHER      -> {Untitled}

\* where a shortener's redirect may lead (p.url after the wait)
RedirectTargets(u) == IF u = fCut THEN {fTot, fEpRes} ELSE {}


\* ------------------------------------------------- extraction and routing
LowerAll(toks) == [i \in 1..Len(toks) |-> Lower(toks[i])]

\* lines 212-229: what the interception rule does with a request for u.  abort_ok says
\* whether route.abort() of line 219 returns (it may raise), continue_ok the same for
\* route.continue_() of line 224 and fallback_ok for route.abort() of line 227; when all
\* the calls made raise, the request is left unhandled
route_handler(u, abort_ok, continue_ok, fallback_ok) ==
  IF AnyIn(BLOCK_PATTERNS_SUBSTR, UrlTokens(u)) /\ abort_ok THEN "abort"
  ELSE IF continue_ok THEN "continue"
  ELSE IF fallback_ok THEN "abort"
  ELSE "unhandled"

\* lines 212-229: every outcome the handler may have for a request for u
RouteOutcomes(u) ==
  {route_handler(u, a, c, f) : a \in BOOLEAN, c \in BOOLEAN, f \in BOOLEAN}

\* lines 258-263
ListingLinks(hrefs) == SelectSeq(hrefs, StartsWithHttp)

\* lines 313-328: is the anchor of a detail page an intermediary candidate
AcceptDetailAnchor(a) ==
  /\ StartsWithHttp(a.href)
  /\ ~(is_episode(LowerAll(a.text)) \/ is_episode(UrlTokens(a.href)))
  /\ \/ /\ (AnyIn(<<"vgml">>, UrlTokens(a.href)) \/ AnyIn(<<"vgmlink">>, UrlTokens(a.href)))
        /\ AnyIn(ACCEPT_BUTTON_KEYWORDS, LowerAll(a.text))
     \/ AnyIn(ACCEPT_BUTTON_KEYWORDS, LowerAll(a.text))

Hrefs(anchors) == [i \in 1..Len(anchors) |-> anchors[i].href]

\* lines 312-336
DetailCandidates(anchors) == Dedupe(Hrefs(SelectSeq(anchors, AcceptDetailAnchor)))

\* lines 180-194
AcceptFinalAnchor(a) ==
  /\ StartsWithHttp(a.href)
  /\ ~(is_episode(LowerAll(a.text)) \/ is_episode(UrlTokens(a.href)))
  /\ \/ AnyIn(HOST_PRIORITY, UrlTokens(a.href))
     \/ AnyIn(ACCEPT_BUTTON_KEYWORDS, LowerAll(a.text))
     \/ a.button

\* lines 174-201
extract_final_candidates_from_html(anchors) == Dedupe(Hrefs(SelectSeq(anchors, AcceptFinalAnchor)))

\* line 428: movie_url.split("/")[-2].replace("-", " ")
UrlSlug(u) ==
  LET parts == << <<"https:">>, <<>>, <<u.host>> >> \o u.segs \o (IF u.slash THEN << <<>> >> ELSE <<>>)
  IN parts[Len(parts) - 1]

\* line 428 left out: no fallback to the detail page's title or the URL slug
TitleFallback_none(rt, page_title, url) == rt

\* lines 427-428
TitleFallback(rt, page_title, url) ==
  IF rt # <<>> THEN rt ELSE IF page_title # <<>> THEN page_title ELSE UrlSlug(url)

\* lines 62-69: scraped.json is missing, unparsable, or holds a ledger
safe_load_json(file) == IF file.state = "ok" THEN file.data ELSE {}


\* ------------------------------------------------------------------ state
\* how many listing pages the page range holds (page_list = 1..NumPages)
NumPages == 2
\* how many times the program is started (first run, restarts, re-runs)
MaxRuns == 2

page_list == [i \in 1..NumPages |-> i]

VARIABLES
  pc,                  \* where the program stands: "idle" (not running), "list", "list_fetch",
                       \* "launched", "routed", "movies", "movie", "movie_fetch", "vgm",
                       \* "vgm_poll", "vgm_fetch", "resolve", "shortener",
                       \* "shortener_wait", "final", "final_fetch", "emit", "mark", "save",
                       \* "dump", "ret", "done"
  scraped,             \* the in-memory ledger: the detail URLs mapped to True
  disk,                \* scraped.json: [state: "missing" | "ok" | "corrupt", data]
  results,             \* results.txt: the lines written, as [title, quality, link]
  page_idx,            \* index into page_list of the listing page at hand
  attempt,             \* the attempt counter of the retry loop at hand
  movie_links,         \* run_scraper: the detail URLs of the listing page
  m_idx,               \* run_scraper: index into movie_links
  movie_url,           \* process_movie: its argument
  raw_page_title,      \* process_movie: the detail page's <title>
  candidate_vgms,      \* process_movie: the intermediary candidates
  v_idx,               \* process_movie: index into candidate_vgms
  saved_title_quality, \* process_movie: the keys already written
  finals,              \* process_movie: the final candidates of the intermediary, ranked
  f_idx,               \* process_movie: index into finals
  resolved,            \* process_movie: the final URL after shortener resolution
  raw_title,           \* process_movie: the title found on the final page
  polls,               \* process_movie: anchor polls made in this render attempt (line 357)
  waited,              \* resolve_shortener_and_get_final: sleeps made in the wait for the
                       \* redirect (line 156)
  open_pages,          \* the browser pages open: how many of each kind (PageKinds)
  routes,              \* the interception handlers registered on the browser context
  \* history, read by the properties only
  runs,                \* how many times the program was started
  start_ledger,        \* what safe_load_json returned when this run started
  inv,                 \* this process_movie call: [renders: page.goto calls made so far on
                       \* the page at hand, loads: load attempts of the detail page,
                       \* marks: ledger sets, detail: "pending" | "loaded" | "failed",
                       \* base: Len(results) at entry, hops: per finished intermediary
                       \* [outcome: "unloadable" | "nofinals" | "loaded", finals: how many]]
  tried,               \* this process_movie call: one entry per final link that reached line 430
  final_loaded,        \* the final page at hand was rendered or fetched
  completed,           \* detail URLs whose process_movie call returned, in any run
  returned,            \* the process_movie calls that returned in this run, in order:
                       \* [url, detail: "loaded" | "failed", vgms: intermediary
                       \* candidates found, records: lines written]
  discovered,          \* detail URLs found on the listing pages loaded in this run
  started,             \* how this run started: "first", "rerun" (after a completed run),
                       \* "restart" (after a kill)
  io_failed,           \* a write of scraped.json raised
  listed,              \* the listing pages this run is done with, in order:
                       \* [page, outcome: "loaded" | "skipped"]
  site,                \* the site the run meets: "small", "io", "dup", "short" or "rich"
  \* a helper called on its own
  arg,                 \* its argument
  ret                  \* what it returned

vars == <<pc, scraped, disk, results, page_idx, attempt, movie_links, m_idx, movie_url,
          raw_page_title, candidate_vgms, v_idx, saved_title_quality, finals, f_idx,
          resolved, raw_title, polls, waited, open_pages, routes, runs, start_ledger, inv,
          tried,
          final_loaded, completed, returned, discovered, started, io_failed, listed, site,
          arg, ret>>

\* the variables of run_scraper's loops
loop_vars == <<page_idx, movie_links, m_idx>>
\* the locals of process_movie below the detail page
hop_vars == <<finals, f_idx, resolved, raw_title, final_loaded, polls, waited>>
\* the files
file_vars == <<disk, results>>
\* history that only starts, returns and saves touch
hist_vars == <<runs, start_ledger, completed, returned, discovered, started, io_failed,
               listed, site, routes, arg, ret>>
\* what only a helper called on its own touches, and the site
fixed_vars == <<site, arg, ret>>

NoInv == [loads |-> 0, marks |-> 0, detail |-> "pending", base |-> 0, hops |-> <<>>,
          renders |-> 0]

\* the kinds of browser page: the listing tab (line 233), the detail tab (286), the
\* intermediary tab (350), the final tab (395), the shortener tab (153)
PageKinds == {"list", "page", "vpage", "fpage", "shortener"}
NoPages == [k \in PageKinds |-> 0]
\* context.new_page()
NewPage(pages, k) == [pages EXCEPT ![k] = @ + 1]
\* p.close()
ClosePage(pages, k) == [pages EXCEPT ![k] = IF @ > 0 THEN @ - 1 ELSE 0]
\* no request was intercepted
NoVerdict == "none"

\* page.goto(u) can only succeed when the navigation request is let through: no handler
\* is registered, or the handler may continue it
CanRender(u) == routes = 0 \/ "continue" \in RouteOutcomes(u)

\* lines 148-149
IsShortener(u) == AnyIn(SHORTENER_HOSTS, UrlTokens(u))

Init ==
  /\ pc = "idle"
  /\ scraped = {}
  /\ disk = [state |-> "missing", data |-> {}]
  /\ results = <<>>
  /\ page_idx = 0
  /\ attempt = 0
  /\ movie_links = <<>>
  /\ m_idx = 0
  /\ movie_url = NoURL
  /\ raw_page_title = <<>>
  /\ candidate_vgms = <<>>
  /\ v_idx = 0
  /\ saved_title_quality = {}
  /\ finals = <<>>
  /\ f_idx = 0
  /\ resolved = NoURL
  /\ raw_title = <<>>
  /\ polls = 0
  /\ waited = 0
  /\ open_pages = NoPages
  /\ routes = 0
  /\ listed = <<>>
  /\ arg = NoURL
  /\ ret = NoVerdict
  /\ runs = 0
  /\ start_ledger = {}
  /\ inv = NoInv
  /\ tried = <<>>
  /\ final_loaded = FALSE
  /\ completed = {}
  /\ returned = <<>>
  /\ discovered = {}
  /\ started = "first"
  /\ io_failed = FALSE
  /\ site = "small"

\* the locals of process_movie, as they are outside a call
ResetCall ==
  /\ movie_url' = NoURL
  /\ raw_page_title' = <<>>
  /\ candidate_vgms' = <<>>
  /\ v_idx' = 0
  /\ saved_title_quality' = {}
  /\ finals' = <<>>
  /\ f_idx' = 0
  /\ resolved' = NoURL
  /\ raw_title' = <<>>
  /\ final_loaded' = FALSE
  /\ polls' = 0
  /\ waited' = 0
  /\ inv' = NoInv
  /\ tried' = <<>>

call_vars == <<movie_url, raw_page_title, candidate_vgms, v_idx, saved_title_quality,
               finals, f_idx, resolved, raw_title, final_loaded, polls, waited, inv,
               tried>>

\* ------------------------------------------------------------ run_scraper
\* line 71 and lines 204-210: the program starts, loads the ledger, launches the browser
\* and creates the context every page of the run is opened in
Start ==
  /\ pc \in {"idle", "done"}
  /\ runs < MaxRuns
  /\ runs' = runs + 1
  /\ scraped' = safe_load_json(disk)
  /\ start_ledger' = safe_load_json(disk)
  /\ returned' = <<>>
  /\ discovered' = {}
  /\ listed' = <<>>
  /\ started' = (IF runs = 0 THEN "first" ELSE IF pc = "done" THEN "rerun" ELSE "restart")
  /\ page_idx' = 0
  /\ attempt' = 0
  /\ movie_links' = <<>>
  /\ m_idx' = 0
  /\ open_pages' = NoPages
  /\ routes' = 0
  /\ pc' = "launched"
  /\ UNCHANGED <<file_vars, call_vars, completed, io_failed, fixed_vars>>

\* the handler is never registered
InstallRoute_skip ==
  /\ pc = "launched"
  /\ pc' = "routed"
  /\ UNCHANGED <<scraped, file_vars, loop_vars, attempt, call_vars, open_pages, hist_vars>>

\* line 231: context.route("**/*", ...) registers the handler on the context
InstallRoute ==
  /\ pc = "launched"
  /\ routes' = routes + 1
  /\ pc' = "routed"
  /\ UNCHANGED <<scraped, file_vars, loop_vars, attempt, call_vars, open_pages, runs,
                 start_ledger, completed, returned, discovered, started, io_failed, listed,
                 fixed_vars>>

\* lines 233-240: the listing tab is opened and the loop over page_list begins
OpenListPage ==
  /\ pc = "routed"
  /\ open_pages' = NewPage(open_pages, "list")
  /\ page_idx' = 1
  /\ attempt' = 1
  /\ pc' = "list"
  /\ UNCHANGED <<scraped, file_vars, movie_links, m_idx, call_vars, hist_vars>>

\* line 235 / 272-281: the listing page at hand is over; go to the next one or finish
\* (page.close(), browser.close())
NextPage(outcome) ==
  /\ movie_links' = <<>>
  /\ m_idx' = 0
  /\ listed' = Append(listed, [page |-> page_list[page_idx], outcome |-> outcome])
  /\ IF page_idx < Len(page_list)
     THEN /\ page_idx' = page_idx + 1
          /\ attempt' = 1
          /\ pc' = "list"
          /\ UNCHANGED open_pages
     ELSE /\ page_idx' = 0
          /\ attempt' = 0
          /\ pc' = "done"
          /\ open_pages' = NoPages

\* lines 240-245, 257-264: a render attempt of the listing page succeeds
ListRenderOk ==
  /\ pc = "list"
  /\ \E html \in ListingPages(site) :
       /\ movie_links' = ListingLinks(html)
       /\ discovered' = discovered \cup Range(ListingLinks(html))
       /\ m_idx' = 1
       /\ attempt' = 0
       /\ pc' = "movies"
  /\ UNCHANGED <<scraped, file_vars, page_idx, call_vars, open_pages, runs, start_ledger,
                 completed, returned, started, io_failed, listed, fixed_vars, routes>>

\* lines 246-249: a render attempt of the listing page fails
ListRenderFail ==
  /\ pc = "list"
  /\ IF attempt < PAGE_LOAD_RETRIES
     THEN attempt' = attempt + 1 /\ pc' = "list"
     ELSE attempt' = 0 /\ pc' = "list_fetch"
  /\ UNCHANGED <<scraped, file_vars, loop_vars, call_vars, open_pages, hist_vars>>

\* lines 250-252, 257-264: the requests fallback fetches the listing page
ListFetchOk ==
  /\ pc = "list_fetch"
  /\ \E html \in ListingPages(site) :
       /\ movie_links' = ListingLinks(html)
       /\ discovered' = discovered \cup Range(ListingLinks(html))
       /\ m_idx' = 1
       /\ pc' = "movies"
  /\ UNCHANGED <<scraped, file_vars, page_idx, attempt, call_vars, open_pages, runs,
                 start_ledger, completed, returned, started, io_failed, listed, fixed_vars,
                 routes>>

\* "break" for "continue" at line 255: the pages after a failed one are not visited
ListFetchFail_break ==
  /\ pc = "list_fetch"
  /\ movie_links' = <<>>
  /\ m_idx' = 0
  /\ listed' = Append(listed, [page |-> page_list[page_idx], outcome |-> "skipped"])
  /\ page_idx' = 0
  /\ attempt' = 0
  /\ pc' = "done"
  /\ open_pages' = NoPages
  /\ UNCHANGED <<scraped, file_vars, call_vars, runs, start_ledger, completed, returned,
                 discovered, started, io_failed, fixed_vars, routes>>

\* lines 253-255: the fallback fails too; the page is skipped
ListFetchFail ==
  /\ pc = "list_fetch"
  /\ NextPage("skipped")
  /\ UNCHANGED <<scraped, file_vars, call_vars, runs, start_ledger, completed, returned,
                 discovered, started, io_failed, fixed_vars, routes>>

\* lines 266-269: the detail URL is in the ledger
MovieSkip ==
  /\ pc = "movies"
  /\ m_idx <= Len(movie_links)
  /\ movie_links[m_idx] \in scraped
  /\ m_idx' = m_idx + 1
  /\ UNCHANGED <<pc, scraped, file_vars, page_idx, attempt, movie_links, call_vars,
                 open_pages, hist_vars>>

\* lines 267-269 left out: process_movie is entered whatever the ledger says
MovieCall_noskip ==
  /\ pc = "movies"
  /\ m_idx <= Len(movie_links)
  /\ movie_url' = movie_links[m_idx]
  /\ attempt' = 1
  /\ open_pages' = NewPage(open_pages, "page")
  /\ pc' = "movie"
  /\ inv' = [NoInv EXCEPT !.base = Len(results)]
  /\ UNCHANGED <<scraped, file_vars, loop_vars, raw_page_title, candidate_vgms, v_idx,
                 saved_title_quality, hop_vars, tried, hist_vars>>

\* lines 266-270, 284-287: the detail URL is not in the ledger; process_movie is entered
MovieCall ==
  /\ pc = "movies"
  /\ m_idx <= Len(movie_links)
  /\ movie_links[m_idx] \notin scraped
  /\ movie_url' = movie_links[m_idx]
  /\ attempt' = 1
  /\ open_pages' = NewPage(open_pages, "page")
  /\ pc' = "movie"
  /\ inv' = [NoInv EXCEPT !.base = Len(results)]
  /\ UNCHANGED <<scraped, file_vars, loop_vars, raw_page_title, candidate_vgms, v_idx,
                 saved_title_quality, hop_vars, tried, hist_vars>>

\* line 266: the listing page has no detail URL left
MoviesEnd ==
  /\ pc = "movies"
  /\ m_idx > Len(movie_links)
  /\ NextPage("loaded")
  /\ UNCHANGED <<scraped, file_vars, call_vars, runs, start_ledger, completed, returned,
                 discovered, started, io_failed, fixed_vars, routes>>


\* ---------------------------------------------------------- process_movie
\* lines 340-341 left out: without a candidate the call returns and the ledger is not set
DetailLoaded_nomark(html) ==
  /\ raw_page_title' = html.title
  /\ IF DetailCandidates(html.anchors) = <<>>
     THEN /\ candidate_vgms' = <<>>
          /\ v_idx' = 0
          /\ attempt' = 0
          /\ pc' = "ret"
          /\ UNCHANGED open_pages
     ELSE /\ candidate_vgms' = DetailCandidates(html.anchors)
          /\ v_idx' = 1
          /\ attempt' = 1
          /\ pc' = "vgm"
          /\ open_pages' = NewPage(open_pages, "vpage")
  /\ saved_title_quality' = {}

\* lines 309-346: the detail page is parsed; without a candidate the call goes to mark the
\* ledger (338-341), otherwise the first intermediary tab is opened (348-351)
DetailLoaded(html) ==
  /\ raw_page_title' = html.title
  /\ IF DetailCandidates(html.anchors) = <<>>
     THEN /\ candidate_vgms' = <<>>
          /\ v_idx' = 0
          /\ attempt' = 0
          /\ pc' = "mark"
          /\ UNCHANGED open_pages
     ELSE /\ candidate_vgms' = DetailCandidates(html.anchors)
          /\ v_idx' = 1
          /\ attempt' = 1
          /\ pc' = "vgm"
          /\ open_pages' = NewPage(open_pages, "vpage")
  /\ saved_title_quality' = {}

\* lines 288-293: a render attempt of the detail page succeeds
MovieRenderOk ==
  /\ pc = "movie"
  /\ CanRender(movie_url)
  /\ \E html \in DetailPages(site) : DetailLoaded(html)
  /\ inv' = [inv EXCEPT !.loads = @ + 1, !.detail = "loaded", !.renders = 0]
  /\ UNCHANGED <<scraped, file_vars, loop_vars, movie_url, hop_vars, tried, hist_vars>>

\* lines 294-297: a render attempt of the detail page fails
MovieRenderFail ==
  /\ pc = "movie"
  /\ IF attempt < MOVIE_LOAD_RETRIES
     THEN attempt' = attempt + 1 /\ pc' = "movie"
     ELSE attempt' = 0 /\ pc' = "movie_fetch"
  /\ inv' = [inv EXCEPT !.loads = @ + 1, !.renders = @ + 1]
  /\ UNCHANGED <<scraped, file_vars, loop_vars, movie_url, raw_page_title, candidate_vgms,
                 v_idx, saved_title_quality, hop_vars, open_pages, tried, hist_vars>>

\* lines 299-300: the requests fallback fetches the detail page
MovieFetchOk ==
  /\ pc = "movie_fetch"
  /\ \E html \in DetailPages(site) : DetailLoaded(html)
  /\ inv' = [inv EXCEPT !.loads = @ + 1, !.detail = "loaded", !.renders = 0]
  /\ UNCHANGED <<scraped, file_vars, loop_vars, movie_url, hop_vars, tried, hist_vars>>

\* lines 303-304 left out: the call returns without marking the ledger
MovieFetchFail_nomark ==
  /\ pc = "movie_fetch"
  /\ pc' = "ret"
  /\ inv' = [inv EXCEPT !.loads = @ + 1, !.detail = "failed", !.renders = 0]
  /\ UNCHANGED <<scraped, file_vars, loop_vars, attempt, movie_url, raw_page_title,
                 candidate_vgms, v_idx, saved_title_quality, hop_vars, open_pages, tried,
                 hist_vars>>

\* the failure is raised instead of handled: it ends run_scraper
MovieFetchFail_abort ==
  /\ pc = "movie_fetch"
  /\ pc' = "done"
  /\ inv' = [inv EXCEPT !.loads = @ + 1, !.detail = "failed", !.renders = 0]
  /\ UNCHANGED <<scraped, file_vars, loop_vars, attempt, movie_url, raw_page_title,
                 candidate_vgms, v_idx, saved_title_quality, hop_vars, open_pages, tried,
                 hist_vars>>

\* lines 301-303: the fallback fails too; the call goes to mark the ledger
MovieFetchFail ==
  /\ pc = "movie_fetch"
  /\ pc' = "mark"
  /\ inv' = [inv EXCEPT !.loads = @ + 1, !.detail = "failed", !.renders = 0]
  /\ UNCHANGED <<scraped, file_vars, loop_vars, attempt, movie_url, raw_page_title,
                 candidate_vgms, v_idx, saved_title_quality, hop_vars, open_pages, tried,
                 hist_vars>>

\* lines 373-375, 380-382, 440-443 and 348-351: the intermediary at hand is over; its tab
\* is closed, and the next one is opened or the loop ends and the call goes to line 445
NextVgm(outcome) ==
  /\ finals' = <<>>
  /\ f_idx' = 0
  /\ resolved' = NoURL
  /\ raw_title' = <<>>
  /\ final_loaded' = FALSE
  /\ polls' = 0
  /\ waited' = 0
  /\ inv' = [inv EXCEPT !.hops = Append(@, [outcome |-> outcome, finals |-> Len(finals)]),
                        !.renders = 0]
  /\ IF v_idx < Len(candidate_vgms)
     THEN /\ v_idx' = v_idx + 1
          /\ attempt' = 1
          /\ pc' = "vgm"
          /\ open_pages' = NewPage(ClosePage(open_pages, "vpage"), "vpage")
     ELSE /\ v_idx' = v_idx
          /\ attempt' = 0
          /\ pc' = "mark"
          /\ open_pages' = ClosePage(open_pages, "vpage")

\* lines 377-384: the intermediary page is parsed and its final candidates ranked
VgmLoaded(html) ==
  IF extract_final_candidates_from_html(html) = <<>>
  THEN NextVgm("nofinals")
  ELSE /\ finals' = prefer_links(extract_final_candidates_from_html(html))
       /\ f_idx' = 1
       /\ attempt' = 0
       /\ polls' = 0
       /\ waited' = 0
       /\ pc' = "resolve"
       /\ inv' = [inv EXCEPT !.renders = 0]
       /\ UNCHANGED <<v_idx, resolved, raw_title, final_loaded, open_pages>>

\* lines 354-357: vpage.goto returns; the wait for anchors begins
VgmGotoOk ==
  /\ pc = "vgm"
  /\ CanRender(candidate_vgms[v_idx])
  /\ polls' = 0
  /\ waited' = 0
  /\ inv' = [inv EXCEPT !.renders = @ + 1]
  /\ pc' = "vgm_poll"
  /\ UNCHANGED <<scraped, file_vars, loop_vars, attempt, movie_url, raw_page_title,
                 candidate_vgms, v_idx, saved_title_quality, finals, f_idx, resolved,
                 raw_title, final_loaded, open_pages, tried, hist_vars>>

\* "while True" for the range of line 357: the wait goes on as long as anchors are missing
VgmPollWait_unbounded ==
  /\ pc = "vgm_poll"
  /\ polls' = polls + 1
  /\ waited' = 0
  /\ UNCHANGED <<pc, scraped, file_vars, loop_vars, attempt, movie_url, raw_page_title,
                 candidate_vgms, v_idx, saved_title_quality, finals, f_idx, resolved,
                 raw_title, final_loaded, open_pages, inv, tried, hist_vars>>

\* lines 357-361: a poll finds fewer than 3 anchors; sleep and poll again
VgmPollWait ==
  /\ pc = "vgm_poll"
  /\ polls < WAIT_ANCHORS_SECONDS
  /\ polls' = polls + 1
  /\ waited' = 0
  /\ UNCHANGED <<pc, scraped, file_vars, loop_vars, attempt, movie_url, raw_page_title,
                 candidate_vgms, v_idx, saved_title_quality, finals, f_idx, resolved,
                 raw_title, final_loaded, open_pages, inv, tried, hist_vars>>

\* lines 357-363: a poll finds 3 anchors or more; the page content is taken
VgmPollReady ==
  /\ pc = "vgm_poll"
  /\ polls < WAIT_ANCHORS_SECONDS
  /\ \E html \in VgmPages(site, candidate_vgms[v_idx]) : VgmLoaded(html)
  /\ UNCHANGED <<scraped, file_vars, loop_vars, movie_url, raw_page_title, candidate_vgms,
                 saved_title_quality, tried, hist_vars>>

\* lines 357, 362-363: the polls are used up; the page content is taken as it is
VgmPollEnd ==
  /\ pc = "vgm_poll"
  /\ polls = WAIT_ANCHORS_SECONDS
  /\ \E html \in VgmPages(site, candidate_vgms[v_idx]) : VgmLoaded(html)
  /\ UNCHANGED <<scraped, file_vars, loop_vars, movie_url, raw_page_title, candidate_vgms,
                 saved_title_quality, tried, hist_vars>>

\* the attempt counter is not advanced: the page is rendered again and again
VgmRenderFail_retry ==
  /\ pc \in {"vgm", "vgm_poll"}
  /\ pc' = "vgm"
  /\ polls' = 0
  /\ waited' = 0
  /\ inv' = [inv EXCEPT !.renders = IF pc = "vgm" THEN @ + 1 ELSE @]
  /\ UNCHANGED <<scraped, file_vars, loop_vars, attempt, movie_url, raw_page_title,
                 candidate_vgms, v_idx, saved_title_quality, finals, f_idx, resolved,
                 raw_title, final_loaded, open_pages, tried, hist_vars>>

\* lines 364-367: a render attempt of the intermediary page fails, in goto or in a poll
VgmRenderFail ==
  /\ pc \in {"vgm", "vgm_poll"}
  /\ IF attempt < VGMLINK_LOAD_RETRIES
     THEN attempt' = attempt + 1 /\ pc' = "vgm"
     ELSE attempt' = 0 /\ pc' = "vgm_fetch"
  /\ polls' = 0
  /\ waited' = 0
  /\ inv' = [inv EXCEPT !.renders = IF pc = "vgm" THEN @ + 1 ELSE @]
  /\ UNCHANGED <<scraped, file_vars, loop_vars, movie_url, raw_page_title, candidate_vgms,
                 v_idx, saved_title_quality, finals, f_idx, resolved, raw_title, final_loaded,
                 open_pages, tried, hist_vars>>

\* lines 369-370: the requests fallback fetches the intermediary page
VgmFetchOk ==
  /\ pc = "vgm_fetch"
  /\ \E html \in VgmPages(site, candidate_vgms[v_idx]) : VgmLoaded(html)
  /\ UNCHANGED <<scraped, file_vars, loop_vars, movie_url, raw_page_title, candidate_vgms,
                 saved_title_quality, tried, hist_vars>>

\* "break" for "continue" at line 375: the remaining intermediaries are not visited
VgmFetchFail_break ==
  /\ pc = "vgm_fetch"
  /\ finals' = <<>>
  /\ f_idx' = 0
  /\ resolved' = NoURL
  /\ raw_title' = <<>>
  /\ final_loaded' = FALSE
  /\ polls' = 0
  /\ waited' = 0
  /\ inv' = [inv EXCEPT !.hops = Append(@, [outcome |-> "unloadable", finals |-> 0]),
                        !.renders = 0]
  /\ attempt' = 0
  /\ pc' = "mark"
  /\ open_pages' = ClosePage(open_pages, "vpage")
  /\ UNCHANGED <<scraped, file_vars, loop_vars, movie_url, raw_page_title, candidate_vgms,
                 v_idx, saved_title_quality, tried, hist_vars>>

\* lines 371-375: the fallback fails too; the intermediary is given up
VgmFetchFail ==
  /\ pc = "vgm_fetch"
  /\ NextVgm("unloadable")
  /\ UNCHANGED <<scraped, file_vars, loop_vars, movie_url, raw_page_title, candidate_vgms,
                 saved_title_quality, tried, hist_vars>>

\* lines 389-395: resolve_shortener_and_get_final has returned r; the first attempt on
\* the final page begins and its tab is opened (395) in the pages left open
EnterFinal(r, pages) ==
  /\ resolved' = r
  /\ raw_title' = <<>>
  /\ final_loaded' = FALSE
  /\ attempt' = 1
  /\ waited' = 0
  /\ open_pages' = NewPage(pages, "fpage")
  /\ pc' = "final"

\* lines 387-389 and 148-150: the final candidate at hand is no shortener and is returned
\* as it is
Resolve ==
  /\ pc = "resolve"
  /\ ~IsShortener(finals[f_idx])
  /\ EnterFinal(finals[f_idx], open_pages)
  /\ UNCHANGED <<scraped, file_vars, loop_vars, movie_url, raw_page_title, candidate_vgms,
                 v_idx, saved_title_quality, finals, f_idx, polls, inv, tried, hist_vars>>

\* lines 151-154: the final candidate at hand is a shortener; a tab is opened for it and
\* p.goto is called
ShortenerOpen ==
  /\ pc = "resolve"
  /\ IsShortener(finals[f_idx])
  /\ open_pages' = NewPage(open_pages, "shortener")
  /\ pc' = "shortener"
  /\ UNCHANGED <<scraped, file_vars, loop_vars, attempt, movie_url, raw_page_title,
                 candidate_vgms, v_idx, saved_title_quality, hop_vars, inv, tried, hist_vars>>

\* line 154: p.goto returns; the wait for the redirect begins
ShortenerGotoOk ==
  /\ pc = "shortener"
  /\ CanRender(finals[f_idx])
  /\ waited' = 0
  /\ pc' = "shortener_wait"
  /\ UNCHANGED <<scraped, file_vars, loop_vars, attempt, movie_url, raw_page_title,
                 candidate_vgms, v_idx, saved_title_quality, finals, f_idx, resolved,
                 raw_title, final_loaded, polls, open_pages, inv, tried, hist_vars>>

\* lines 154, 165-171: p.goto raises; the tab is closed and the URL is returned as it is
ShortenerGotoFail ==
  /\ pc = "shortener"
  /\ EnterFinal(finals[f_idx], ClosePage(open_pages, "shortener"))
  /\ UNCHANGED <<scraped, file_vars, loop_vars, movie_url, raw_page_title, candidate_vgms,
                 v_idx, saved_title_quality, finals, f_idx, polls, inv, tried, hist_vars>>

\* lines 156-159: one second is slept and the tab is still at the shortener's URL
ShortenerSleep ==
  /\ pc = "shortener_wait"
  /\ waited < wait_seconds
  /\ waited' = waited + 1
  /\ UNCHANGED <<pc, scraped, file_vars, loop_vars, attempt, movie_url, raw_page_title,
                 candidate_vgms, v_idx, saved_title_quality, finals, f_idx, resolved,
                 raw_title, final_loaded, polls, open_pages, inv, tried, hist_vars>>

\* lines 156-164: one second is slept and the tab has moved on; the loop is left, the tab
\* is closed and the URL the tab is at is returned
ShortenerRedirected ==
  /\ pc = "shortener_wait"
  /\ waited < wait_seconds
  /\ \E r \in RedirectTargets(finals[f_idx]) :
       EnterFinal(r, ClosePage(open_pages, "shortener"))
  /\ UNCHANGED <<scraped, file_vars, loop_vars, movie_url, raw_page_title, candidate_vgms,
                 v_idx, saved_title_quality, finals, f_idx, polls, inv, tried, hist_vars>>

\* lines 156, 161-164: the sleeps are used up; p.url is read once more (it may have moved
\* since the last comparison), the tab is closed and that URL is returned
ShortenerWaitEnd ==
  /\ pc = "shortener_wait"
  /\ waited = wait_seconds
  /\ \E r \in {finals[f_idx]} \cup RedirectTargets(finals[f_idx]) :
       EnterFinal(r, ClosePage(open_pages, "shortener"))
  /\ UNCHANGED <<scraped, file_vars, loop_vars, movie_url, raw_page_title, candidate_vgms,
                 v_idx, saved_title_quality, finals, f_idx, polls, inv, tried, hist_vars>>

\* lines 151-171: the steps of resolve_shortener_and_get_final for a shortener
ResolveShortener ==
  \/ ShortenerOpen \/ ShortenerGotoOk \/ ShortenerGotoFail
  \/ ShortenerSleep \/ ShortenerRedirected \/ ShortenerWaitEnd

\* line 393: the next attempt on the final page, whose tab is opened (395) in the pages
\* left open, or the end of the loop
NextFinalAttempt(pages) ==
  IF attempt < FINAL_LOAD_RETRIES
  THEN attempt' = attempt + 1 /\ pc' = "final" /\ open_pages' = NewPage(pages, "fpage")
  ELSE attempt' = 0 /\ pc' = "emit" /\ open_pages' = pages

\* lines 396-413: fpage.goto returns; after the pause of line 397 the title is the page's
\* h5 heading, else its <title>; the tab is closed (411)
FinalRenderOk ==
  /\ pc = "final"
  /\ CanRender(resolved)
  /\ \E html \in FinalPages(site, resolved) :
       /\ raw_title' = (IF html.h5 # <<>> THEN html.h5 ELSE html.title)
       /\ IF raw_title' # <<>>
          THEN attempt' = 0 /\ pc' = "emit" /\ open_pages' = ClosePage(open_pages, "fpage")
          ELSE NextFinalAttempt(ClosePage(open_pages, "fpage"))
  /\ final_loaded' = TRUE
  /\ inv' = [inv EXCEPT !.renders = @ + 1]
  /\ UNCHANGED <<scraped, file_vars, loop_vars, movie_url, raw_page_title, candidate_vgms,
                 v_idx, saved_title_quality, finals, f_idx, resolved, polls, waited, tried,
                 hist_vars>>

\* lines 415-418 left out: the tab of a failed attempt stays open
FinalRenderFail_leak ==
  /\ pc = "final"
  /\ pc' = "final_fetch"
  /\ inv' = [inv EXCEPT !.renders = @ + 1]
  /\ UNCHANGED <<scraped, file_vars, loop_vars, attempt, movie_url, raw_page_title,
                 candidate_vgms, v_idx, saved_title_quality, hop_vars, open_pages, tried,
                 hist_vars>>

\* lines 396, 414-420: fpage.goto raises; the tab is closed (416) and the requests
\* fallback is called
FinalRenderFail ==
  /\ pc = "final"
  /\ pc' = "final_fetch"
  /\ open_pages' = ClosePage(open_pages, "fpage")
  /\ inv' = [inv EXCEPT !.renders = @ + 1]
  /\ UNCHANGED <<scraped, file_vars, loop_vars, attempt, movie_url, raw_page_title,
                 candidate_vgms, v_idx, saved_title_quality, hop_vars, tried, hist_vars>>

\* lines 420-426: the requests fallback fetches the final page and only its h5 heading is
\* read
FinalFetchOk ==
  /\ pc = "final_fetch"
  /\ \E html \in FinalPages(site, resolved) :
       /\ raw_title' = html.h5
       /\ IF html.h5 # <<>>
          THEN attempt' = 0 /\ pc' = "emit" /\ UNCHANGED open_pages
          ELSE NextFinalAttempt(open_pages)
  /\ final_loaded' = TRUE
  /\ UNCHANGED <<scraped, file_vars, loop_vars, movie_url, raw_page_title, candidate_vgms,
                 v_idx, saved_title_quality, finals, f_idx, resolved, polls, waited, inv,
                 tried, hist_vars>>

\* lines 420-421: the requests fallback returns None
FinalFetchFail ==
  /\ pc = "final_fetch"
  /\ NextFinalAttempt(open_pages)
  /\ UNCHANGED <<scraped, file_vars, loop_vars, movie_url, raw_page_title, candidate_vgms,
                 v_idx, saved_title_quality, finals, f_idx, resolved, raw_title, final_loaded,
                 polls, waited, inv, tried, hist_vars>>


\* line 432: key = f"{title_clean}||{quality}"
ResultKey(title_clean, quality) == <<title_clean, quality>>

\* line 433 always false: nothing is taken for a duplicate
AlreadySaved_never(key, saved) == FALSE

\* the key is also looked up among the lines results.txt already holds
AlreadySaved_anycall(key, saved) ==
  key \in saved \cup {ResultKey(results[n].title, results[n].quality) : n \in 1..Len(results)}

\* line 433
AlreadySaved(key, saved) == key \in saved

\* lines 80-83: the line appended to results.txt
write_result(title, quality, link) == [title |-> title, quality |-> quality, link |-> link]

\* lines 427-438, then line 387 (next final candidate) or lines 440-443 (next intermediary)
Emit ==
  /\ pc = "emit"
  /\ LET rt == TitleFallback(raw_title, raw_page_title, movie_url)
         quality == extract_quality(rt)
         title_clean == clean_title(rt)
         key == ResultKey(title_clean, quality)
         dup == AlreadySaved(key, saved_title_quality)
     IN /\ results' = (IF dup THEN results
                       ELSE Append(results, write_result(title_clean, quality, resolved)))
        /\ saved_title_quality' = (IF dup THEN saved_title_quality
                                   ELSE saved_title_quality \cup {key})
        /\ tried' = Append(tried, [key |-> key, href |-> finals[f_idx], link |-> resolved,
                                   vgm |-> v_idx, loaded |-> final_loaded, own |-> raw_title,
                                   written |-> ~dup])
  /\ IF f_idx < Len(finals)
     THEN /\ f_idx' = f_idx + 1
          /\ resolved' = NoURL
          /\ raw_title' = <<>>
          /\ final_loaded' = FALSE
          /\ attempt' = 0
          /\ pc' = "resolve"
          /\ inv' = [inv EXCEPT !.renders = 0]
          /\ UNCHANGED <<finals, v_idx, polls, waited, open_pages>>
     ELSE NextVgm("loaded")
  /\ UNCHANGED <<scraped, disk, loop_vars, movie_url, raw_page_title, candidate_vgms, hist_vars>>

\* the ledger is replaced by a new one that holds this URL only
Mark_reset ==
  /\ pc = "mark"
  /\ scraped' = {movie_url}
  /\ inv' = [inv EXCEPT !.marks = @ + 1]
  /\ pc' = "save"
  /\ UNCHANGED <<file_vars, loop_vars, attempt, movie_url, raw_page_title, candidate_vgms,
                 v_idx, saved_title_quality, hop_vars, open_pages, tried, hist_vars>>

\* lines 303, 340, 445: scraped[movie_url] = True
Mark ==
  /\ pc = "mark"
  /\ scraped' = scraped \cup {movie_url}
  /\ inv' = [inv EXCEPT !.marks = @ + 1]
  /\ pc' = "save"
  /\ UNCHANGED <<file_vars, loop_vars, attempt, movie_url, raw_page_title, candidate_vgms,
                 v_idx, saved_title_quality, hop_vars, open_pages, tried, hist_vars>>

\* line 75: open(SCRAPED_FILE, "w") truncates scraped.json
SaveOpenOk ==
  /\ pc = "save"
  /\ disk' = [state |-> "corrupt", data |-> {}]
  /\ pc' = "dump"
  /\ UNCHANGED <<scraped, results, loop_vars, attempt, call_vars, open_pages, hist_vars>>

\* the failed save undoes the entry in memory
SaveOpenFail_rollback ==
  /\ pc = "save"
  /\ io_failed' = TRUE
  /\ scraped' = scraped \ {movie_url}
  /\ pc' = "ret"
  /\ UNCHANGED <<file_vars, loop_vars, attempt, call_vars, open_pages, runs,
                 start_ledger, completed, returned, discovered, started, listed, fixed_vars,
                 routes>>

\* lines 75, 77-78: open raises; the file is left as it was
SaveOpenFail ==
  /\ pc = "save"
  /\ io_failed' = TRUE
  /\ pc' = "ret"
  /\ UNCHANGED <<scraped, file_vars, loop_vars, attempt, call_vars, open_pages, runs,
                 start_ledger, completed, returned, discovered, started, listed, fixed_vars,
                 routes>>

\* line 76: json.dump writes the whole ledger
SaveDumpOk ==
  /\ pc = "dump"
  /\ disk' = [state |-> "ok", data |-> scraped]
  /\ pc' = "ret"
  /\ UNCHANGED <<scraped, results, loop_vars, attempt, call_vars, open_pages, hist_vars>>

\* lines 76-78: json.dump raises; the file is left truncated or partial
SaveDumpFail ==
  /\ pc = "dump"
  /\ io_failed' = TRUE
  /\ pc' = "ret"
  /\ UNCHANGED <<scraped, file_vars, loop_vars, attempt, call_vars, open_pages, runs,
                 start_ledger, completed, returned, discovered, started, listed, fixed_vars,
                 routes>>

\* lines 305-307, 342-344, 447-450: the detail tab is closed and process_movie returns
Return ==
  /\ pc = "ret"
  /\ open_pages' = ClosePage(open_pages, "page")
  /\ completed' = completed \cup {movie_url}
  /\ returned' = Append(returned, [url |-> movie_url, detail |-> inv.detail,
                                    vgms |-> Len(candidate_vgms),
                                    records |-> Len(results) - inv.base])
  /\ ResetCall
  /\ m_idx' = m_idx + 1
  /\ attempt' = 0
  /\ pc' = "movies"
  /\ UNCHANGED <<scraped, file_vars, page_idx, movie_links, runs, start_ledger, discovered,
                 started, io_failed, listed, fixed_vars, routes>>

\* the process is killed: memory and browser are lost, the files stay as they are
Crash ==
  /\ pc \notin {"idle", "done", "rank", "ranked", "request", "handled"}
  /\ pc' = "idle"
  /\ scraped' = {}
  /\ page_idx' = 0
  /\ attempt' = 0
  /\ movie_links' = <<>>
  /\ m_idx' = 0
  /\ ResetCall
  /\ open_pages' = NoPages
  /\ routes' = 0
  /\ start_ledger' = {}
  /\ returned' = <<>>
  /\ discovered' = {}
  /\ listed' = <<>>
  /\ UNCHANGED <<file_vars, runs, completed, started, io_failed, fixed_vars>>

Next ==
  \/ Start \/ InstallRoute \/ OpenListPage
  \/ ListRenderOk \/ ListRenderFail \/ ListFetchOk \/ ListFetchFail
  \/ MovieSkip \/ MovieCall \/ MoviesEnd
  \/ MovieRenderOk \/ MovieRenderFail \/ MovieFetchOk \/ MovieFetchFail
  \/ VgmGotoOk \/ VgmPollWait \/ VgmPollReady \/ VgmPollEnd \/ VgmRenderFail
  \/ VgmFetchOk \/ VgmFetchFail
  \/ Resolve \/ FinalRenderOk \/ FinalRenderFail \/ FinalFetchOk \/ FinalFetchFail
  \/ Emit
  \/ Mark \/ SaveOpenOk \/ SaveDumpOk \/ Return

\* lines 148-150 on the sites of the runs: the final candidate at hand is never a shortener
ResolveIsDirect == pc = "resolve" => ~IsShortener(finals[f_idx])

\* Runs that end on their own, with a scraped.json that can be written: a first run and
\* its re-runs.  The sites of the runs ("small", "io", "dup") have no shortener among
\* their final links, so lines 151-171 are not among the steps of Next (ResolveIsDirect holds
\* in every state of the runs); they are steps of NextCall, which meets the "rich" site.
Spec == Init /\ [][Next]_vars

NextIO == Next \/ SaveOpenFail \/ SaveDumpFail

InitIO ==
  /\ pc = "idle"
  /\ site = "io"
  /\ arg = NoURL
  /\ ret = NoVerdict
  /\ scraped = {}
  /\ disk = [state |-> "missing", data |-> {}]
  /\ results = <<>>
  /\ runs = 0
  /\ start_ledger = {}
  /\ completed = {}
  /\ returned = <<>>
  /\ discovered = {}
  /\ started = "first"
  /\ io_failed = FALSE
  /\ listed = <<>>
  /\ page_idx = 0
  /\ attempt = 0
  /\ movie_links = <<>>
  /\ m_idx = 0
  /\ movie_url = NoURL
  /\ raw_page_title = <<>>
  /\ candidate_vgms = <<>>
  /\ v_idx = 0
  /\ saved_title_quality = {}
  /\ finals = <<>>
  /\ f_idx = 0
  /\ resolved = NoURL
  /\ raw_title = <<>>
  /\ polls = 0
  /\ waited = 0
  /\ open_pages = NoPages
  /\ routes = 0
  /\ inv = NoInv
  /\ tried = <<>>
  /\ final_loaded = FALSE

\* Runs that end on their own, with writes of scraped.json that may raise.
SpecIO == InitIO /\ [][NextIO]_vars

NextResume == NextIO \/ Crash

\* Runs that may be killed at any point and restarted.
SpecResume == Init /\ [][NextResume]_vars


\* One process_movie call on the rich site: the state in which run_scraper enters
\* process_movie for the first detail URL of the first listing page of a first run.
InitCallOn(s) ==
  /\ pc = "movie"
  /\ scraped = {}
  /\ disk = [state |-> "missing", data |-> {}]
  /\ results = <<>>
  /\ page_idx = 1
  /\ attempt = 1
  /\ site = s
  /\ \E html \in ListingPages(site) :
       /\ ListingLinks(html) # <<>>
       /\ movie_links = ListingLinks(html)
       /\ movie_url = ListingLinks(html)[1]
       /\ discovered = Range(ListingLinks(html))
  /\ m_idx = 1
  /\ raw_page_title = <<>>
  /\ candidate_vgms = <<>>
  /\ v_idx = 0
  /\ saved_title_quality = {}
  /\ finals = <<>>
  /\ f_idx = 0
  /\ resolved = NoURL
  /\ raw_title = <<>>
  /\ polls = 0
  /\ waited = 0
  /\ open_pages = [NoPages EXCEPT !["list"] = 1, !["page"] = 1]
  /\ routes = 1
  /\ listed = <<>>
  /\ arg = NoURL
  /\ ret = NoVerdict
  /\ runs = 1
  /\ start_ledger = {}
  /\ inv = NoInv
  /\ tried = <<>>
  /\ final_loaded = FALSE
  /\ completed = {}
  /\ returned = <<>>
  /\ started = "first"
  /\ io_failed = FALSE

InitCall == InitCallOn("rich")

NextCall ==
  \/ MovieRenderOk \/ MovieRenderFail \/ MovieFetchOk \/ MovieFetchFail
  \/ VgmGotoOk \/ VgmPollWait \/ VgmPollReady \/ VgmPollEnd \/ VgmRenderFail
  \/ VgmFetchOk \/ VgmFetchFail
  \/ Resolve \/ ResolveShortener
  \/ FinalRenderOk \/ FinalRenderFail \/ FinalFetchOk \/ FinalFetchFail
  \/ Emit
  \/ Mark \/ SaveOpenOk \/ SaveDumpOk \/ Return

SpecCall == InitCall /\ [][NextCall]_vars


\* The steps of a call of which one is possible wherever the call stands: the attempt at
\* hand fails, or the step at hand has one outcome only.
CallProgress ==
  \/ MovieRenderFail \/ MovieFetchFail \/ VgmRenderFail \/ VgmFetchFail
  \/ Resolve \/ ShortenerOpen \/ ShortenerGotoFail \/ ShortenerSleep \/ ShortenerWaitEnd
  \/ FinalRenderFail \/ FinalFetchFail \/ Emit
  \/ Mark \/ SaveOpenOk \/ SaveDumpOk \/ Return

\* One process_movie call on the short site (two intermediaries, each with one final
\* link, a shortener or a gdtot link) that does not stand still while it can take a
\* step: every call to the browser or to requests returns or raises within its timeout.
SpecCallFair == InitCallOn("short") /\ [][NextCall]_vars /\ WF_vars(CallProgress)

\* every variable of the program but pc, as Init leaves it
prog_vars == <<scraped, disk, results, page_idx, attempt, movie_links, m_idx, movie_url,
               raw_page_title, candidate_vgms, v_idx, saved_title_quality, finals, f_idx,
               resolved, raw_title, polls, waited, open_pages, routes, runs, start_ledger,
               inv,
               tried, final_loaded, completed, returned, discovered, started, io_failed,
               listed, site>>

AtRest ==
  /\ scraped = {}
  /\ disk = [state |-> "missing", data |-> {}]
  /\ results = <<>>
  /\ page_idx = 0
  /\ attempt = 0
  /\ movie_links = <<>>
  /\ m_idx = 0
  /\ movie_url = NoURL
  /\ raw_page_title = <<>>
  /\ candidate_vgms = <<>>
  /\ v_idx = 0
  /\ saved_title_quality = {}
  /\ finals = <<>>
  /\ f_idx = 0
  /\ resolved = NoURL
  /\ raw_title = <<>>
  /\ polls = 0
  /\ waited = 0
  /\ open_pages = NoPages
  /\ routes = 0
  /\ listed = <<>>
  /\ runs = 0
  /\ start_ledger = {}
  /\ inv = NoInv
  /\ tried = <<>>
  /\ final_loaded = FALSE
  /\ completed = {}
  /\ returned = <<>>
  /\ discovered = {}
  /\ started = "first"
  /\ io_failed = FALSE

InitDup ==
  /\ AtRest
  /\ pc = "idle"
  /\ site = "dup"
  /\ arg = NoURL
  /\ ret = NoVerdict

\* Runs on the dup site.
SpecDup == InitDup /\ [][Next]_vars

\* prefer_links called on its own: the lists of at most MaxLinks hrefs, repeats included
MaxLinks == 3

LinkPool == {fTot, fFlix, fBtn, fCut, fEp, fBoth, fUp}

LinkLists == UNION {[1..n -> LinkPool] : n \in 0..MaxLinks}

InitRank ==
  /\ AtRest
  /\ site = "small"
  /\ pc = "rank"
  /\ arg \in LinkLists
  /\ ret = <<>>

\* line 131: return sorted(links, key=lambda x: score(x))
PreferLinks ==
  /\ pc = "rank"
  /\ pc' = "ranked"
  /\ ret' = prefer_links(arg)
  /\ UNCHANGED <<prog_vars, arg>>

NextRank == PreferLinks

SpecRank == InitRank /\ [][NextRank]_vars


\* The requests a page may make while it loads: documents, scripts and images of the
\* site's hosts and of others.
RequestHosts == {"vegamoviesog.city", "vgmlinks.app", "gdtot.example", "gdflix.example",
                 "filepress.example", "cutt.ly", "ouo.io", "doubleclick.net", "trk.example",
                 "vdshort.example", "ADSERVER.example", "cdn.example"}

RequestPaths == {"file", "abc", "inception", "style.css", "track", "tracking", "Tracking",
                 "adsbygoogle.js", "shortener"}

Requests == {U(h, << <<t>> >>) : h \in RequestHosts, t \in RequestPaths}

\* lines 212-229, 231: a request of the listing tab is handed to the registered handler,
\* whose calls on the route may raise; without a handler the request goes on
Intercept ==
  /\ pc = "list"
  /\ open_pages["list"] > 0
  /\ \E u \in Requests, abort_ok \in BOOLEAN, continue_ok \in BOOLEAN, fallback_ok \in BOOLEAN :
       /\ arg' = [url |-> u, abort_ok |-> abort_ok, continue_ok |-> continue_ok,
                  fallback_ok |-> fallback_ok]
       /\ ret' = (IF routes > 0 THEN route_handler(u, abort_ok, continue_ok, fallback_ok)
                               ELSE "continue")
  /\ UNCHANGED <<pc, prog_vars>>

NextRoute == Start \/ InstallRoute \/ OpenListPage \/ Intercept

\* The start of a run and the requests of its listing tab.
SpecRoute == Init /\ [][NextRoute]_vars


\* ------------------------------------------------------------- properties
\* the positions inside process_movie
CallPcs == {"movie", "movie_fetch", "vgm", "vgm_poll", "vgm_fetch", "resolve", "shortener",
            "shortener_wait", "final", "final_fetch", "emit",
            "mark", "save", "dump", "ret"}
\* the positions after scraped[movie_url] = True
AfterMark == {"save", "dump", "ret"}

\* the entries of tried that wrote a line
Written == {i \in 1..Len(tried) : tried[i].written}

RECURSIVE RecordsOf(_)
\* the lines written by the calls of rs
RecordsOf(rs) == IF rs = <<>> THEN 0 ELSE Head(rs).records + RecordsOf(Tail(rs))

\* C1: in every process_movie call the ledger entry of the detail URL is set exactly once:
\* never before a load of the detail page was attempted, only after every intermediary
\* candidate has finished, and always before the call returns.
C1_MarkedOnceAfterAllAttempts ==
  pc \in CallPcs =>
    /\ inv.marks <= 1
    /\ inv.marks = 0 => movie_url \notin scraped
    /\ inv.marks = 1 => /\ movie_url \in scraped
                        /\ inv.loads >= 1
                        /\ inv.detail # "pending"
                        /\ Len(inv.hops) = Len(candidate_vgms)
    /\ pc \in AfterMark <=> inv.marks = 1

C1_Witness ==
  /\ pc = "ret"
  /\ inv.marks = 1
  /\ inv.loads >= 2
  /\ Len(candidate_vgms) = 2
  /\ Len(inv.hops) = 2

\* C2: a run never enters process_movie for a detail URL that the ledger loaded at its
\* start records, and a line is appended to results.txt only inside such a call; so a
\* re-run over the ledger of a completed run processes none of its URLs and writes
\* nothing for them.
C2_RerunSkipsLedger ==
  /\ [](/\ pc \in CallPcs => movie_url \notin start_ledger
        /\ \A i \in 1..Len(returned) : returned[i].url \notin start_ledger)
  /\ [][results' # results => pc = "emit" /\ movie_url \notin start_ledger]_vars

C2_Witness ==
  /\ started = "rerun"
  /\ pc = "movies"
  /\ m_idx = 2
  /\ movie_links[1] \in start_ledger
  /\ returned = <<>>

\* C3 as claimed: after a restart every detail URL whose process_movie call returned
\* before the kill is in the ledger the run works with (so it is skipped), as long as
\* no write of scraped.json raised.
C3_RestartKeepsCompleted ==
  (pc # "idle" /\ ~io_failed) => completed \subseteq scraped

\* C4: a detail page that fails every render attempt and the fetch fallback is marked in
\* the ledger and writes no line, and the run goes on: a listing loop that has ended has
\* handled every link of its page, and a finished run every link it found.
C4_DetailFailureMarksAndContinues ==
  /\ \A i \in 1..Len(returned) :
       returned[i].detail = "failed" => returned[i].records = 0 /\ returned[i].url \in scraped
  /\ (pc \in AfterMark /\ inv.detail = "failed") => Len(results) = inv.base
  /\ (pc = "movies" /\ m_idx > Len(movie_links)) => Range(movie_links) \subseteq scraped
  /\ pc = "done" => discovered \subseteq scraped

C4_Witness ==
  /\ pc = "done"
  /\ \E i, j \in 1..Len(returned) :
       /\ i < j
       /\ returned[i].detail = "failed"
       /\ returned[j].detail = "loaded"
       /\ returned[j].records >= 1

\* C5: when the intermediary loop of a call is over, every intermediary candidate has been
\* visited and every final candidate of every intermediary that loaded has reached line 430,
\* whatever happened to the other intermediaries.
C5_SiblingsSurviveHopFailure ==
  (pc \in AfterMark \cup {"mark"} /\ inv.detail = "loaded") =>
    /\ Len(inv.hops) = Len(candidate_vgms)
    /\ \A j \in 1..Len(inv.hops) :
         Cardinality({i \in 1..Len(tried) : tried[i].vgm = j}) = inv.hops[j].finals

C5_Witness ==
  /\ pc = "ret"
  /\ Len(inv.hops) = 2
  /\ inv.hops[1].outcome \in {"unloadable", "nofinals"}
  /\ inv.hops[2].outcome = "loaded"
  /\ \E i \in Written : tried[i].vgm = 2

\* C6 as claimed: a call writes at most one line per quality value.
C6_OneRecordPerQuality ==
  \A i, j \in Written : i # j => tried[i].key[2] # tried[j].key[2]

\* C6 amended: a call writes at most one line per (cleaned title, quality) pair, the first
\* final link met with that pair, and the lines of the call in results.txt are those.
C6_OneRecordPerTitleQuality ==
  /\ \A i \in 1..Len(tried) :
       tried[i].written <=> (\A h \in 1..(i - 1) : tried[h].key # tried[i].key)
  /\ pc \in CallPcs => Len(results) = inv.base + Cardinality(Written)
  /\ \A i \in Written :
       results[inv.base + Cardinality({h \in Written : h <= i})]
         = write_result(tried[i].key[1], tried[i].key[2], tried[i].link)

C6_Witness ==
  \E i, j \in 1..Len(tried) :
    /\ i < j
    /\ tried[i].key = tried[j].key
    /\ tried[i].vgm # tried[j].vgm
    /\ tried[i].written
    /\ ~tried[j].written

\* C7 as claimed: of all final links of a call with the same key, the one written ranks
\* best in HOST_PRIORITY.
C7_BestHostWins ==
  \A i \in Written : \A j \in 1..Len(tried) :
    tried[j].key = tried[i].key => score(tried[i].link) <= score(tried[j].link)

\* C7 amended: of all final links of a call with the same key, the one written comes from
\* the earliest intermediary page, and among those of that page its href (before shortener
\* resolution) ranks best in HOST_PRIORITY.
C7_BestHostWithinFirstPage ==
  \A i \in Written : \A j \in 1..Len(tried) :
    tried[j].key = tried[i].key =>
      /\ tried[i].vgm <= tried[j].vgm
      /\ tried[i].vgm = tried[j].vgm => score(tried[i].href) <= score(tried[j].href)

C7_Witness ==
  \E i \in Written : \E j \in 1..Len(tried) :
    /\ tried[j].key = tried[i].key
    /\ tried[i].vgm = tried[j].vgm
    /\ score(tried[i].href) < score(tried[j].href)

\* C8 as claimed: every line of results.txt has a non-empty title.
C8_TitleNeverEmpty ==
  \A i \in 1..Len(results) : results[i].title # <<>>

\* C9 as claimed: a line is written for a final link only if its final page was loaded.
C9_RecordOnlyIfFinalLoaded ==
  \A i \in Written : tried[i].loaded

\* C9 amended: the detail hop and the intermediary hop are abandoned when every render
\* attempt and the fetch fallback fail, and nothing is written from them; the final hop
\* is not: every final link of a loaded intermediary reaches line 430, and a link whose
\* page could not be loaded, or gave no heading or title, has the title and quality of
\* the detail page's title or, without one, of the URL slug; its line is written, with that
\* title and quality and the link, exactly when no earlier final link of the call had the
\* same (cleaned title, quality) pair.
C9_AbandonOnlyBeforeFinalHop ==
  /\ inv.detail = "failed" =>
       tried = <<>> /\ candidate_vgms = <<>> /\ (pc \in CallPcs => Len(results) = inv.base)
  /\ \A j \in 1..Len(inv.hops) :
       /\ inv.hops[j].outcome = "unloadable" => \A i \in 1..Len(tried) : tried[i].vgm # j
       /\ inv.hops[j].outcome = "loaded" =>
            /\ inv.hops[j].finals > 0
            /\ Cardinality({i \in 1..Len(tried) : tried[i].vgm = j}) = inv.hops[j].finals
  /\ \A i \in 1..Len(tried) :
       /\ ~tried[i].loaded => tried[i].own = <<>>
       /\ tried[i].own = <<>> =>
            LET fb == IF raw_page_title # <<>> THEN raw_page_title ELSE UrlSlug(movie_url)
                first == \A h \in 1..(i - 1) : tried[h].key # tried[i].key
            IN /\ tried[i].key = ResultKey(clean_title(fb), extract_quality(fb))
               /\ tried[i].written <=> first
               /\ first =>
                    results[inv.base + Cardinality({h \in Written : h <= i})]
                      = [title |-> clean_title(fb), quality |-> extract_quality(fb),
                         link |-> tried[i].link]

C9_Witness ==
  /\ \E j \in 1..Len(inv.hops) : inv.hops[j].outcome = "unloadable"
  /\ \E i, k \in 1..Len(tried) :
       /\ i < k
       /\ ~tried[i].loaded
       /\ tried[i].written
       /\ tried[k].loaded
       /\ tried[k].own = <<>>
       /\ ~tried[k].written

\* C10 as claimed: no line is written from an episode-like URL at any hop: not the
\* intermediary href, not the final href, not the URL the shortener resolved to.
C10_NoEpisodeRecord ==
  \A i \in Written :
    /\ ~is_episode(UrlTokens(candidate_vgms[tried[i].vgm]))
    /\ ~is_episode(UrlTokens(tried[i].href))
    /\ ~is_episode(UrlTokens(tried[i].link))

\* C11: a detail page that loads and holds no intermediary candidate is marked in the
\* ledger and writes no line; the lines a first run has written are those of its calls,
\* so a listing of two links, the first worth one line and the second without
\* intermediary, ends with one line and both URLs in the ledger.
C11_NoCandidateMarkedWithoutRecord ==
  /\ (pc \in AfterMark /\ inv.detail = "loaded" /\ candidate_vgms = <<>>) =>
       /\ Len(results) = inv.base
       /\ tried = <<>>
       /\ movie_url \in scraped
  /\ \A i \in 1..Len(returned) :
       /\ returned[i].url \in scraped
       /\ (returned[i].detail = "loaded" /\ returned[i].vgms = 0) => returned[i].records = 0
  /\ (started = "first" /\ pc \in {"list", "list_fetch", "movies", "done"}) =>
       Len(results) = RecordsOf(returned)

C11_Witness ==
  /\ pc = "done"
  /\ started = "first"
  /\ Len(returned) = 2
  /\ returned[1].vgms = 1
  /\ returned[1].records = 1
  /\ returned[2].detail = "loaded"
  /\ returned[2].vgms = 0
  /\ Len(results) = 1
  /\ results[1].link = fTot
  /\ scraped = {returned[1].url, returned[2].url}

\* C12: the program starts with the empty ledger when scraped.json is missing or cannot be
\* parsed; a save that raises changes nothing in memory and the call returns as usual; and
\* within a run no URL is processed twice, whatever became of its save.
C12_LedgerIOFailureNotFatal ==
  /\ [][pc' # pc /\ pc \in {"idle", "done"} => pc' = "launched" /\ scraped' = safe_load_json(disk)]_vars
  /\ [][pc' # pc /\ pc \in {"idle", "done"} /\ disk.state # "ok" => scraped' = {}]_vars
  /\ [][(pc \in {"save", "dump"}) => pc' \in {"dump", "ret"} /\ scraped' = scraped /\ movie_url \in scraped']_vars
  /\ [](/\ pc \in CallPcs => \A i \in 1..Len(returned) : returned[i].url # movie_url
        /\ \A i, j \in 1..Len(returned) : returned[i].url = returned[j].url => i = j)

C12_Witness ==
  /\ started = "rerun"
  /\ disk.state = "corrupt"
  /\ start_ledger = {}
  /\ completed # {}
  /\ io_failed
  /\ pc = "movies"
  /\ m_idx <= Len(movie_links)
  /\ movie_links[m_idx] \in scraped
  /\ \E i \in 1..Len(returned) : returned[i].url = movie_links[m_idx]

\* C13: prefer_links returns its input rearranged (every position of the input is used
\* once), in non-decreasing rank, links of equal rank in the order they had in the input;
\* the rank of a link is the index of the first HOST_PRIORITY entry found in its lower-cased
\* text, and Len(HOST_PRIORITY) when none is found; [unlisted host, gdflix, gdtot] comes
\* back with the gdtot link first.
C13_StableSortByHostRank ==
  pc = "ranked" =>
    /\ Len(ret) = Len(arg)
    /\ \E p \in [1..Len(arg) -> 1..Len(arg)] :
         /\ \A i, j \in 1..Len(arg) : p[i] = p[j] => i = j
         /\ \A i \in 1..Len(arg) : ret[i] = arg[p[i]]
         /\ \A i, j \in 1..Len(arg) : i < j =>
              /\ score(ret[i]) <= score(ret[j])
              /\ score(ret[i]) = score(ret[j]) => p[i] < p[j]
    /\ \A i \in 1..Len(arg) :
         LET Hits == {idx \in 1..Len(HOST_PRIORITY) :
                        \E j \in 1..Len(UrlTokens(arg[i])) :
                           HOST_PRIORITY[idx] \in SubstrOf(Lower(UrlTokens(arg[i])[j]))}
         IN  /\ Hits = {} => score(arg[i]) = Len(HOST_PRIORITY)
             /\ Hits # {} => /\ score(arg[i]) + 1 \in Hits
                             /\ \A h \in Hits : score(arg[i]) + 1 <= h
    /\ arg = <<fBtn, fFlix, fTot>> => ret = <<fTot, fFlix, fBtn>>

C13_Witness ==
  /\ pc = "ranked"
  /\ arg = <<fBtn, fUp, fBoth>>
  /\ ret = <<fBoth, fUp, fBtn>>

\* the resolution tags of a text, each once, in the order they first appear
RECURSIVE QualityTags(_)
QualityTags(toks) ==
  IF toks = <<>> THEN <<>>
  ELSE LET before == QualityTags(SubSeq(toks, 1, Len(toks) - 1))
           q == QualityOf(Lower(toks[Len(toks)]))
       IN IF q = "none" \/ (\E i \in 1..Len(before) : before[i] = q) THEN before
          ELSE Append(before, q)

\* C14 as claimed: a final link whose URL text names a resolution has it; the others (no
\* anchor text of the sites modelled names one) take the unused resolution tags of the
\* detail page in discovery order, the k-th such link the k-th tag, and "Unknown" after
\* the last; at most one "Unknown" line is written for a candidate.
C14_QualityFallbackChain ==
  LET aggregate == QualityTags(raw_page_title)
      Unmatched == {i \in 1..Len(tried) : FirstQuality(UrlTokens(tried[i].link)) = "none"}
  IN /\ \A i \in Written :
          IF i \notin Unmatched THEN tried[i].key[2] = FirstQuality(UrlTokens(tried[i].link))
          ELSE LET k == Cardinality({h \in Unmatched : h <= i})
               IN tried[i].key[2] = (IF k <= Len(aggregate) THEN aggregate[k] ELSE "Unknown")
     /\ Cardinality({i \in Written : tried[i].key[2] = "Unknown"}) <= 1

\* C14 as amended: the quality of a final link is the first resolution tag of the text its
\* title is cleaned from, and "Unknown" when that text has none; the text is the heading
\* or title found on the final page, else the detail page's title, else the slug of the
\* detail URL. The link is written unless its (cleaned title, quality) was written before.
C14_QualityFromChosenTitle ==
  \A i \in 1..Len(tried) :
    LET own == tried[i].own
        text == IF own # <<>> THEN own
                ELSE IF raw_page_title # <<>> THEN raw_page_title ELSE UrlSlug(movie_url)
        Tagged == {j \in 1..Len(text) : QualityOf(Lower(text[j])) # "none"}
    IN /\ own # <<>> => /\ tried[i].loaded
                        /\ \E pg \in FinalPages(site, tried[i].link) :
                              own = pg.h5 \/ (pg.h5 = <<>> /\ own = pg.title)
       /\ Tagged = {} => tried[i].key[2] = "Unknown"
       /\ Tagged # {} => \E j \in Tagged : /\ tried[i].key[2] = QualityOf(Lower(text[j]))
                                            /\ \A h \in Tagged : j <= h
       /\ tried[i].written <=> (\A h \in 1..(i - 1) : ~tried[h].written \/ tried[h].key # tried[i].key)
       /\ tried[i].written => \E n \in (inv.base + 1)..Len(results) :
                                 /\ results[n].quality = tried[i].key[2]
                                 /\ results[n].link = tried[i].link

C14_Witness ==
  /\ raw_page_title = DetailTitle
  /\ \E i, j \in Written :
       /\ tried[i].own = <<>>
       /\ tried[i].key[2] = "720p"
       /\ tried[j].own # <<>>
       /\ tried[j].key[2] = "1080p"
  /\ \E i \in Written : tried[i].key[2] = "Unknown"

\* C15: the handler is registered once per run and before the first page is opened (no
\* page is ever open with no handler or with two), and an intercepted request is aborted
\* exactly when an entry of BLOCK_PATTERNS_SUBSTR occurs in its lower-cased URL; every other
\* request continues.
C15_InterceptionInstalledOnceAndBlocks ==
  /\ routes \in {0, 1}
  /\ (\E k \in PageKinds : open_pages[k] > 0) => routes = 1
  /\ pc \in {"routed", "list"} => routes = 1
  /\ ret # NoVerdict =>
       /\ ret \in {"abort", "continue"}
       /\ ret = "abort" <=>
            \E n \in 1..Len(BLOCK_PATTERNS_SUBSTR) : \E j \in 1..Len(UrlTokens(arg.url)) :
               BLOCK_PATTERNS_SUBSTR[n] \in SubstrOf(Lower(UrlTokens(arg.url)[j]))
       /\ arg.url = U("ADSERVER.example", << <<"style.css">> >>) => ret = "abort"
       /\ arg.url = U("cdn.example", << <<"track">> >>) => ret = "continue"
       /\ arg.url = U("cutt.ly", << <<"abc">> >>) => ret = "continue"
       /\ arg.url = U("ouo.io", << <<"file">> >>) => ret = "abort"

\* the claim of C15 for the requests whose route calls all return
C15_BlocksWhenRouteCallsReturn ==
  /\ routes \in {0, 1}
  /\ (\E k \in PageKinds : open_pages[k] > 0) => routes = 1
  /\ (ret # NoVerdict /\ arg.abort_ok /\ arg.continue_ok) =>
       /\ ret \in {"abort", "continue"}
       /\ ret = "abort" <=>
            \E n \in 1..Len(BLOCK_PATTERNS_SUBSTR) : \E j \in 1..Len(UrlTokens(arg.url)) :
               BLOCK_PATTERNS_SUBSTR[n] \in SubstrOf(Lower(UrlTokens(arg.url)[j]))

\* a request for a blocked URL whose route.abort() raised and that was then continued
C15_BlockedRequestContinued ==
  /\ routes = 1
  /\ open_pages["list"] = 1
  /\ ret # NoVerdict
  /\ arg.url = U("cdn.example", << <<"Tracking">> >>)
  /\ ~arg.abort_ok
  /\ ret = "continue"

\* C16: process_movie is entered only for a detail URL that is not in the ledger and that
\* no call of this run was made for; the calls of a run are for different URLs, each in
\* the ledger once its call has returned; and while a run lasts the ledger only grows.
C16_NoUrlProcessedTwiceInARun ==
  /\ [][pc' = "movie" /\ pc = "movies" =>
          /\ movie_url' = movie_links[m_idx]
          /\ movie_url' \notin scraped
          /\ \A i \in 1..Len(returned) : returned[i].url # movie_url']_vars
  /\ [][scraped \subseteq scraped' \/ pc \in {"idle", "done"}]_vars
  /\ [](\A i \in 1..Len(returned) :
          /\ returned[i].url \in scraped
          /\ \A j \in 1..Len(returned) : i # j => returned[i].url # returned[j].url)

C16_Witness ==
  /\ started = "first"
  /\ pc = "movies"
  /\ page_idx = 2
  /\ movie_links = <<d1, d2>>
  /\ m_idx = 3
  /\ Len(returned) = 2
  /\ returned[1].url = d2
  /\ returned[2].url = d1

\* C17: the listing pages are taken in the order of page_list and none is left out: the
\* run ends only after the last one; a page is given up only from the fetch fallback,
\* which is reached only after PAGE_LOAD_RETRIES failed renders; and after a page was given
\* up the next page is loaded and its links processed, so that at the end every link of
\* every loaded page is in the ledger.
C17_EveryListingPageAttempted ==
  /\ [](/\ Len(listed) <= Len(page_list)
        /\ \A i \in 1..Len(listed) : listed[i].page = page_list[i]
        /\ pc \in {"list", "list_fetch", "movies"} \cup CallPcs =>
              /\ page_idx = Len(listed) + 1
              /\ attempt <= PAGE_LOAD_RETRIES \/ pc # "list"
        /\ pc = "done" =>
              /\ Len(listed) = Len(page_list)
              /\ discovered \subseteq scraped
              /\ \A u \in discovered \ start_ledger :
                    \E i \in 1..Len(returned) : returned[i].url = u)
  /\ [][listed' # listed /\ listed' # <<>> =>
          /\ listed' = Append(listed, [page |-> page_list[page_idx],
                                       outcome |-> listed'[Len(listed')].outcome])
          /\ listed'[Len(listed')].outcome = "skipped" <=> pc = "list_fetch"
          /\ listed'[Len(listed')].outcome = "loaded" <=> pc = "movies"]_vars
  /\ [][pc' = "list_fetch" /\ pc # "list_fetch" =>
          pc = "list" /\ attempt = PAGE_LOAD_RETRIES]_vars

C17_Witness ==
  /\ pc = "done"
  /\ started = "first"
  /\ Len(listed) = 2
  /\ listed[1].outcome = "skipped"
  /\ listed[2].outcome = "loaded"
  /\ Len(returned) = 2

\* C18: in a process_movie call the detail page is rendered at most MOVIE_LOAD_RETRIES
\* times, each intermediary page at most VGMLINK_LOAD_RETRIES times with at most
\* WAIT_ANCHORS_SECONDS polls in an attempt, a shortener is waited for at most
\* wait_seconds sleeps, each final page is rendered at most FINAL_LOAD_RETRIES
\* times; the fetch fallback of the detail and of the intermediary hop starts only when all
\* renders of the hop were made and failed; and the call returns to run_scraper's loop.
C18_BoundedHopsAndTermination ==
  /\ [](/\ pc = "movie" => attempt \in 1..MOVIE_LOAD_RETRIES /\ inv.renders = attempt - 1
        /\ pc = "movie_fetch" => inv.renders = MOVIE_LOAD_RETRIES
        /\ pc = "vgm" => attempt \in 1..VGMLINK_LOAD_RETRIES /\ inv.renders = attempt - 1
        /\ pc = "vgm_poll" => /\ attempt \in 1..VGMLINK_LOAD_RETRIES
                              /\ inv.renders = attempt
                              /\ polls \in 0..WAIT_ANCHORS_SECONDS
        /\ pc = "vgm_fetch" => inv.renders = VGMLINK_LOAD_RETRIES
        /\ pc = "shortener_wait" => waited \in 0..wait_seconds
        /\ pc = "final" => attempt \in 1..FINAL_LOAD_RETRIES /\ inv.renders = attempt - 1
        /\ pc = "final_fetch" => attempt \in 1..FINAL_LOAD_RETRIES /\ inv.renders = attempt
        /\ pc = "emit" => inv.renders \in 0..FINAL_LOAD_RETRIES)
  /\ <>(pc = "movies" /\ Len(returned) = 1)

C18_Witness ==
  /\ pc = "emit"
  /\ inv.loads = MOVIE_LOAD_RETRIES + 1
  /\ inv.detail = "loaded"
  /\ v_idx = 2
  /\ inv.hops[1].outcome = "unloadable"
  /\ inv.renders = FINAL_LOAD_RETRIES
  /\ ~final_loaded

\* C19: saved_title_quality is empty until the call's first line and holds exactly the
\* (cleaned title, quality) pairs of the lines the call has written, no pair twice; a final
\* link is written exactly when its pair is not in the set, whatever results.txt holds
\* from earlier calls, and the set then gains the pair.
C19_DedupSetPerCandidate ==
  /\ [](/\ saved_title_quality = {tried[i].key : i \in Written}
        /\ \A i, j \in Written : tried[i].key = tried[j].key => i = j
        /\ Cardinality(saved_title_quality) = Cardinality(Written)
        /\ pc \in {"movies", "movie", "movie_fetch"} => saved_title_quality = {})
  /\ [][pc = "emit" =>
          /\ Len(tried') = Len(tried) + 1
          /\ tried'[Len(tried')].written <=> tried'[Len(tried')].key \notin saved_title_quality
          /\ tried'[Len(tried')].written <=> Len(results') = Len(results) + 1
          /\ ~tried'[Len(tried')].written <=> results' = results
          /\ saved_title_quality' = saved_title_quality \cup {tried'[Len(tried')].key}]_vars

C19_Witness ==
  /\ pc = "mark"
  /\ Len(returned) = 1
  /\ inv.base = 1
  /\ Len(results) = 2
  /\ results[1].title = results[2].title
  /\ results[1].quality = results[2].quality
  /\ Len(tried) = 4
  /\ Cardinality(Written) = 1

\* C20: of the tabs process_movie opens, a shortener tab is open only while the shortener
\* is loaded and waited for, a final tab only while its render attempt runs, never two of
\* a kind; one intermediary tab is open while its intermediary is
\* worked on and none once the loop is over, on each way out of the loop; the detail tab
\* is open until the call returns; and when the call has returned, on whatever path,
\* only the listing tab of run_scraper is open.
C20_AllPagesClosedOnReturn ==
  /\ open_pages["fpage"] = (IF pc = "final" THEN 1 ELSE 0)
  /\ open_pages["shortener"] = (IF pc \in {"shortener", "shortener_wait"} THEN 1 ELSE 0)
  /\ open_pages["list"] = 1
  /\ open_pages["vpage"] =
       (IF pc \in {"vgm", "vgm_poll", "vgm_fetch", "resolve", "shortener", "shortener_wait",
                   "final", "final_fetch", "emit"} THEN 1 ELSE 0)
  /\ open_pages["page"] = (IF pc \in CallPcs THEN 1 ELSE 0)
  /\ pc = "movies" =>
       /\ open_pages = [k \in PageKinds |-> IF k = "list" THEN 1 ELSE 0]
       /\ Len(returned) = 1
       /\ returned[1].detail \in {"loaded", "failed"}

C20_Witness ==
  /\ pc = "movies"
  /\ Len(returned) = 1
  /\ returned[1].detail = "loaded"
  /\ returned[1].vgms = 2
  /\ returned[1].records = 2
  /\ open_pages["list"] = 1
  /\ open_pages["page"] = 0
  /\ open_pages["vpage"] = 0

====
